---- MODULE Spec2Model ----
(***************************************************************************)
(* chutney's traffic tester (lib/chutney/Traffic.py): a TrafficTester      *)
(* hangs on select() and dispatches to Sources, which connect (optionally  *)
(* over a SOCKS4 proxy) and send a payload repeated R times, and to Sinks, *)
(* which the Listener creates for accepted connections and which verify    *)
(* the payload.  A TestSuite keeps the tally.                               *)
(*                                                                         *)
(* The sockets are the environment: a connection's bytes in flight, its    *)
(* end of file, the result of each recv() and send().  One pass of run()   *)
(* is a select step followed by one step per ready descriptor.             *)
(***************************************************************************)
EXTENDS Integers, Sequences, FiniteSets, TLC

\* ------------------------------------------------------------- bounds
MaxLen == 2        \* longest payload
MaxReps == 2       \* largest repetition count
MaxTimeout == 1    \* largest timeout budget
MaxSources == 1    \* Sources registered before run()
MaxExt == 1        \* connections to the listener made by foreign clients
MaxStream == 3     \* bytes a foreign client sends on one connection
ChanCap == 2       \* bytes a direct connection holds in flight

\* ---------------------------------------------------- program constants
LISTENER == 1
SOURCE == 2
SINK == 3
NOT_CONNECTED == 0
CONNECTING == 1
CONNECTING_THROUGH_PROXY == 2
CONNECTED == 5
ReplyLen == 8
StallLimit == 2
ListenerFd == 0

\* ------------------------------------------------------------ sequences
Take(s, n) == SubSeq(s, 1, n)
Drop(s, n) == SubSeq(s, n + 1, Len(s))
IsPrefix(s, t) == Len(s) <= Len(t) /\ Take(t, Len(s)) = s

RECURSIVE Repeat(_, _)
Repeat(s, n) == IF n <= 0 THEN <<>> ELSE s \o Repeat(s, n - 1)

RECURSIVE SeqsUpTo(_, _)
SeqsUpTo(S, n) ==
    IF n = 0 THEN {<<>>}
    ELSE LET shorter == SeqsUpTo(S, n - 1)
         IN shorter \cup {Append(s, b) : s \in {t \in shorter : Len(t) = n - 1}, b \in S}

Min(a, b) == IF a <= b THEN a ELSE b

\* The payload bytes of the model, and the payloads a caller may pass.
\* The payloads start with byte 1: exchanging the two bytes changes nothing.
Bytes == {1, 2}
Payloads == {d \in SeqsUpTo(Bytes, MaxLen) : d = <<>> \/ d[1] = 1}

\* -------------------------------------------------------------- socks_cmd
\* A destination is [ipv4 |-> BOOLEAN, addr |-> the four octets inet_aton
\* yields or the host name's ASCII bytes, port |-> 0..65535].
Dests == { [ipv4 |-> TRUE, addr |-> <<10, 0, 0, 5>>, port |-> 80],
           [ipv4 |-> FALSE, addr |-> <<104>>, port |-> 258] }
RunDest == [ipv4 |-> TRUE, addr |-> <<10, 0, 0, 5>>, port |-> 80]

socks_cmdLittleEndian(dest) ==
    LET addr == IF dest.ipv4 THEN dest.addr ELSE <<0, 0, 0, 1>>
        dnsname == IF dest.ipv4 THEN <<>> ELSE dest.addr \o <<0>>
    IN <<4, 1, dest.port % 256, dest.port \div 256>> \o addr \o <<0>> \o dnsname

socks_cmdNoTerminator(dest) ==
    LET addr == IF dest.ipv4 THEN dest.addr ELSE <<0, 0, 0, 1>>
        dnsname == IF dest.ipv4 THEN <<>> ELSE dest.addr
    IN <<4, 1, dest.port \div 256, dest.port % 256>> \o addr \o <<0>> \o dnsname

socks_cmd(dest) ==
    LET ver == 4
        cmd == 1
        user == <<0>>
        addr == IF dest.ipv4 THEN dest.addr ELSE <<0, 0, 0, 1>>
        dnsname == IF dest.ipv4 THEN <<>> ELSE dest.addr \o <<0>>
    IN <<ver, cmd, dest.port \div 256, dest.port % 256>> \o addr \o user \o dnsname

\* -------------------------------------------------------------------- Sink
\* Sink.__init__: an empty buffer and the tester's repetition count.
SinkNew(reps, conn) ==
    [type |-> SINK, inbuf |-> <<>>, repetitions |-> reps, conn |-> conn]

\* Sink.verify's shortcut: no recv() when no data is ever expected.
SinkShortcut(p, data) == p.repetitions = 0 \/ Len(data) = 0

\* (changed: one byte more than the payload has room for is asked for)
SinkRecvLimitOneMore(p, data) == Len(data) - Len(p.inbuf) + 1

\* (changed: a whole payload is asked for, whatever the buffer holds)
SinkRecvWholePayload(p, data) == Len(data)

\* The argument of Sink.verify's recv().
SinkRecvLimit(p, data) == Len(data) - Len(p.inbuf)

\* (changed: only the first byte of the payload is compared)
PayloadHeadMatches(inbuf, data) == inbuf[1] = data[1]

\* Sink.verify's comparison of the head of the buffer with the payload.
PayloadMatches(inbuf, data) == Take(inbuf, Len(data)) = data

\* Sink.verify's while loop: compare and drop whole payloads.
\* ret is "fail", "assert" (the assertion does not hold) or "ok".
RECURSIVE VerifyLoop(_, _, _)
VerifyLoop(inbuf, reps, data) ==
    IF Len(inbuf) >= Len(data)
    THEN IF ~(Len(inbuf) <= Len(data) \/ reps > 1)
         THEN [inbuf |-> inbuf, repetitions |-> reps, ret |-> "assert"]
         ELSE IF ~PayloadMatches(inbuf, data)
         THEN [inbuf |-> inbuf, repetitions |-> reps, ret |-> "fail"]
         ELSE VerifyLoop(Drop(inbuf, Len(data)), reps - 1, data)
    ELSE [inbuf |-> inbuf, repetitions |-> reps, ret |-> "ok"]

\* (changed: the end of file is not noticed and the remaining count is returned)
SinkOnEofGoesOn(p, data) == p.repetitions * Len(data) - Len(p.inbuf)

\* The value Sink.verify returns when recv() delivers no byte.
SinkOnEof(p, data) == -1

\* Sink.on_readable / Sink.verify with inp the bytes recv() returned
\* (<<>> is end of file).  n is the returned number; raised is TRUE when the
\* assertion fails.
SinkOnReadable(p, data, inp) ==
    IF SinkShortcut(p, data)
    THEN [p |-> p, n |-> 0, raised |-> FALSE]
    ELSE IF Len(inp) = 0
    THEN [p |-> p, n |-> SinkOnEof(p, data), raised |-> FALSE]
    ELSE LET v == VerifyLoop(p.inbuf \o inp, p.repetitions, data)
             q == [p EXCEPT !.inbuf = v.inbuf, !.repetitions = v.repetitions]
         IN IF v.ret = "assert" THEN [p |-> q, n |-> -1, raised |-> TRUE]
            ELSE IF v.ret = "fail" THEN [p |-> q, n |-> -1, raised |-> FALSE]
            ELSE [p |-> q,
                  n |-> v.repetitions * Len(data) - Len(v.inbuf),
                  raised |-> FALSE]

\* ------------------------------------------------------------------ Source
\* Source.__init__ followed by connect(): the sanity checks, then CONNECTING.
SourceNew(buf, proxy, reps, dest) ==
    LET r == IF Len(buf) = 0 THEN 0 ELSE reps
        d == IF r = 0 THEN <<>> ELSE buf
    IN [type |-> SOURCE, state |-> CONNECTING, data |-> d, outbuf |-> <<>>,
        inbuf |-> <<>>, proxy |-> proxy, repetitions |-> r,
        sent_no_bytes |-> 0, dest |-> dest]

want_to_write(p) ==
    \/ p.state = CONNECTING
    \/ Len(p.outbuf) > 0
    \/ (p.state = CONNECTED /\ p.repetitions > 0 /\ Len(p.data) > 0)

SourceWritePrepPrepends(p) ==
    LET p1 == IF p.state = CONNECTING
              THEN IF ~p.proxy
                   THEN [p EXCEPT !.state = CONNECTED]
                   ELSE [p EXCEPT !.state = CONNECTING_THROUGH_PROXY,
                                  !.outbuf = socks_cmd(p.dest)]
              ELSE p
    IN IF p1.state = CONNECTED /\ Len(p1.outbuf) < Len(p1.data) /\ p1.repetitions > 0
       THEN [p1 EXCEPT !.outbuf = p1.data \o @, !.repetitions = @ - 1]
       ELSE p1

SourceWritePrepEager(p) ==
    LET p1 == IF p.state = CONNECTING
              THEN IF ~p.proxy
                   THEN [p EXCEPT !.state = CONNECTED]
                   ELSE [p EXCEPT !.state = CONNECTING_THROUGH_PROXY,
                                  !.outbuf = socks_cmd(p.dest)]
              ELSE p
    IN IF Len(p1.outbuf) < Len(p1.data) /\ p1.repetitions > 0
       THEN [p1 EXCEPT !.outbuf = @ \o p1.data, !.repetitions = @ - 1]
       ELSE p1

\* Source.on_writable up to its send(): the state change of a completed
\* connect and the refill of outbuf.
SourceWritePrep(p) ==
    LET p1 == IF p.state = CONNECTING
              THEN IF ~p.proxy
                   THEN [p EXCEPT !.state = CONNECTED]
                   ELSE [p EXCEPT !.state = CONNECTING_THROUGH_PROXY,
                                  !.outbuf = socks_cmd(p.dest)]
              ELSE p
    IN IF p1.state = CONNECTED /\ Len(p1.outbuf) < Len(p1.data) /\ p1.repetitions > 0
       THEN [p1 EXCEPT !.outbuf = @ \o p1.data, !.repetitions = @ - 1]
       ELSE p1

\* What on_writable returns once the bytes are sent.
SourceRemaining(p) ==
    IF p.state = CONNECTING_THROUGH_PROXY THEN 1
    ELSE p.repetitions * Len(p.data) + Len(p.outbuf)

SourceOnWritableSleepsOnStall(p, snd) ==
    LET q == SourceWritePrep(p)
    IN IF snd.err = "refused"
       THEN [p |-> q, n |-> -1, slept |-> FALSE, raised |-> FALSE]
       ELSE IF snd.err # "none"
       THEN [p |-> q, n |-> -1, slept |-> FALSE, raised |-> TRUE]
       ELSE IF snd.n > 0
       THEN LET q1 == [q EXCEPT !.sent_no_bytes = 0, !.outbuf = Drop(@, snd.n)]
            IN [p |-> q1, n |-> SourceRemaining(q1), slept |-> FALSE, raised |-> FALSE]
       ELSE LET q1 == [q EXCEPT !.sent_no_bytes = @ + 1]
            IN IF q1.sent_no_bytes >= StallLimit
               THEN [p |-> q1, n |-> -1, slept |-> TRUE, raised |-> FALSE]
               ELSE [p |-> q1, n |-> SourceRemaining(q1), slept |-> TRUE,
                     raised |-> FALSE]

SourceOnWritableNoReset(p, snd) ==
    LET q == SourceWritePrep(p)
    IN IF snd.err = "refused"
       THEN [p |-> q, n |-> -1, slept |-> FALSE, raised |-> FALSE]
       ELSE IF snd.err # "none"
       THEN [p |-> q, n |-> -1, slept |-> FALSE, raised |-> TRUE]
       ELSE IF snd.n > 0
       THEN LET q1 == [q EXCEPT !.outbuf = Drop(@, snd.n)]
            IN [p |-> q1, n |-> SourceRemaining(q1), slept |-> FALSE, raised |-> FALSE]
       ELSE LET q1 == [q EXCEPT !.sent_no_bytes = @ + 1]
            IN IF q1.sent_no_bytes >= StallLimit
               THEN [p |-> q1, n |-> -1, slept |-> FALSE, raised |-> FALSE]
               ELSE [p |-> q1, n |-> SourceRemaining(q1), slept |-> TRUE,
                     raised |-> FALSE]

\* Source.on_writable, with snd the outcome of send(): [err |-> "none", n |-> the
\* bytes accepted] or [err |-> "refused" or another error].  slept is TRUE when
\* the call went through time.sleep(5), raised when the error is re-raised.
SourceOnWritable(p, snd) ==
    LET q == SourceWritePrep(p)
    IN IF snd.err = "refused"
       THEN [p |-> q, n |-> -1, slept |-> FALSE, raised |-> FALSE]
       ELSE IF snd.err # "none"
       THEN [p |-> q, n |-> -1, slept |-> FALSE, raised |-> TRUE]
       ELSE IF snd.n > 0
       THEN LET q1 == [q EXCEPT !.sent_no_bytes = 0, !.outbuf = Drop(@, snd.n)]
            IN [p |-> q1, n |-> SourceRemaining(q1), slept |-> FALSE, raised |-> FALSE]
       ELSE LET q1 == [q EXCEPT !.sent_no_bytes = @ + 1]
            IN IF q1.sent_no_bytes >= StallLimit
               THEN [p |-> q1, n |-> -1, slept |-> FALSE, raised |-> FALSE]
               ELSE [p |-> q1, n |-> SourceRemaining(q1), slept |-> TRUE,
                     raised |-> FALSE]

\* Whether Source.on_readable calls recv(), and with which argument.
SourceReads(p) == p.state = CONNECTING_THROUGH_PROXY
\* (changed: eight bytes are asked for, whatever the buffer holds)
SourceRecvLimitWhole(p) == ReplyLen
SourceRecvLimit(p) == ReplyLen - Len(p.inbuf)

\* The first two bytes of a reply that grants the request.
ReplyGranted == <<0, 90>>

\* Source.on_readable with inp the bytes recv() returned (<<>>: end of file).
\* py3: the interpreter is Python 3, where indexing bytes yields an int and the
\* ord() in the argument of the rejection's debug() call raises TypeError
\* before the state is reset; under Python 2 the call goes through.
SourceOnReadable(p, inp, py3) ==
    IF p.state = CONNECTING_THROUGH_PROXY
    THEN IF Len(inp) = 0
         THEN [p |-> p, n |-> -1, raised |-> FALSE]
         ELSE LET q == [p EXCEPT !.inbuf = @ \o inp]
              IN IF Len(q.inbuf) = ReplyLen
                 THEN IF Take(q.inbuf, 2) = ReplyGranted
                      THEN LET c == [q EXCEPT !.state = CONNECTED, !.inbuf = <<>>]
                           IN [p |-> c, n |-> IF want_to_write(c) THEN 1 ELSE 0,
                               raised |-> FALSE]
                      ELSE IF py3
                      THEN [p |-> q, n |-> -1, raised |-> TRUE]
                      ELSE [p |-> [q EXCEPT !.state = NOT_CONNECTED], n |-> -1,
                            raised |-> FALSE]
                 ELSE [p |-> q, n |-> ReplyLen - Len(q.inbuf),
                       raised |-> ~(ReplyLen - Len(q.inbuf) > 0)]
    ELSE [p |-> p, n |-> IF want_to_write(p) THEN 1 ELSE 0, raised |-> FALSE]

\* --------------------------------------------------------------- TestSuite
TestSuiteNew == [not_done |-> 0, successes |-> 0, failures |-> 0]
TestSuiteAdd(t) == [t EXCEPT !.not_done = @ + 1]
TestSuiteSuccess(t) == [t EXCEPT !.not_done = @ - 1, !.successes = @ + 1]
TestSuiteFailure(t) == [t EXCEPT !.not_done = @ - 1, !.failures = @ + 1]
all_done(t) == t.not_done = 0
failure_count(t) == t.failures

\* ------------------------------------------------------------------ state
VARIABLES
    data,           \* TrafficTester.data
    repetitions,    \* TrafficTester.repetitions
    timeout,        \* TrafficTester.timeout
    tests,          \* TrafficTester.tests, the TestSuite
    peers,          \* TrafficTester.peers: fd -> Source or Sink
    pending_close,  \* TrafficTester.pending_close
    pc,             \* where the caller is: "setup", in run() at "select", "read",
                    \* "write", or after it: "done", "raised"
    rq,             \* sets[0] of the current pass, the part not yet serviced
    wq,             \* sets[1] of the current pass, the part not yet serviced
    result,         \* what run() returned
    nextfd,         \* the next descriptor the system hands out
    closed,         \* the sockets closed so far, in order
    conns,          \* the connections made to the listener: bytes in flight, end of file
    backlog,        \* the connections the listener has not accepted yet
    socks,          \* the socket of each Source, and where the Source was sent
    sent,           \* fd -> the bytes its socket has accepted so far
    rcvd,           \* fd -> the bytes its recv() calls have returned so far
    outcome,        \* fd -> what its last step reported: "none", "succeeded", "failed"
    eofread,        \* the descriptors whose recv() returned no byte (end of file)
    chunks,         \* Sink fd -> the number of its recv() calls that returned bytes
    python3,        \* the interpreter that runs the tester is Python 3
    blocked,        \* the step just taken by run() went through time.sleep()
    wret,           \* fd -> what the Source's last on_writable returned, and the
                    \* state it returned in
    srcstate        \* fd -> the state field of the Source made for it, kept when
                    \* the Source leaves the map

vars == <<data, repetitions, timeout, tests, peers, pending_close, pc,
          rq, wq, result, nextfd, closed, conns, backlog, socks, sent, rcvd, outcome,
          eofread, chunks, python3, srcstate, blocked, wret>>
progvars == <<data, repetitions, timeout, tests, peers, pending_close,
              pc, rq, wq, result, nextfd, closed, python3, srcstate,
              blocked, wret>>

\* ----------------------------------------------------------- TrafficTester
\* TrafficTester.__init__'s sanity checks on (data, repetitions).
TesterReps(d, r) == IF Len(d) = 0 THEN 0 ELSE r
TesterData(d, r) == IF TesterReps(d, r) = 0 THEN <<>> ELSE d

\* (changed: every peer added is counted as a test)
TestsOnAddAnyPeer(t, p) == TestSuiteAdd(t)

\* TrafficTester.add: the peer enters the map; only a Source is a test.
PeersAdd(ps, fd, p) == [x \in DOMAIN ps \cup {fd} |-> IF x = fd THEN p ELSE ps[x]]

\* (changed: the remaining-repetitions counter is one for all roles)
PeersStepSharedCursor(ps, fd, p) ==
    [x \in DOMAIN ps |-> IF x = fd THEN p
                         ELSE [ps[x] EXCEPT !.repetitions = p.repetitions]]

\* The map after a step of the role at fd that keeps it: the step has changed
\* the fields of that role's own object and of no other.
PeersStep(ps, fd, p) == [ps EXCEPT ![fd] = p]

TestsOnAdd(t, p) == IF p.type = SOURCE THEN TestSuiteAdd(t) ELSE t

PeersRemoveNothing(ps, fd) == ps

\* TrafficTester.remove.
PeersRemove(ps, fd) == [x \in DOMAIN ps \ {fd} |-> ps[x]]

\* The tally after a read step returned n.
TestsOnRead(t, n) ==
    IF n > 0 THEN t ELSE IF n = 0 THEN TestSuiteSuccess(t) ELSE TestSuiteFailure(t)

\* The tally after a write step returned n.
TestsOnWrite(t, n) == IF n < 0 THEN TestSuiteFailure(t) ELSE t

\* run()'s loop condition.
LoopGoesOn == ~all_done(tests) /\ timeout > 0

\* (changed: the failures are not looked at)
RunResultAllDone(t) == all_done(t)

\* run()'s return value.
RunResultNoFailure(t) == failure_count(t) = 0

RunResult(t) == all_done(t) /\ failure_count(t) = 0

RECURSIVE Ascending(_)
Ascending(S) ==
    IF S = {} THEN <<>>
    ELSE LET m == CHOOSE x \in S : \A y \in S : x <= y
         IN <<m>> \o Ascending(S \ {m})

RECURSIVE SelectSeq2(_, _)
SelectSeq2(s, S) ==
    IF s = <<>> THEN <<>>
    ELSE (IF Head(s) \in S THEN <<Head(s)>> ELSE <<>>) \o SelectSeq2(Tail(s), S)

\* ----------------------------------------------------------------- sockets
\* select(): a listener is readable with a connection to accept, a Sink or
\* Source with bytes in flight or at end of file or with a pending error.
SockReadable(fd) ==
    IF fd = ListenerFd THEN backlog # <<>>
    ELSE IF peers[fd].type = SINK
    THEN conns[peers[fd].conn].rx # <<>> \/ conns[peers[fd].conn].eof
    ELSE \/ socks[fd].rx # <<>>
         \/ socks[fd].eof
         \/ socks[fd].status \in {"refused", "reset"}

\* The room the peer of a Source's socket has left.
\* A proxy takes whatever is offered; a direct connection holds ChanCap bytes.
SockSpace(fd, offered) ==
    IF socks[fd].conn = 0 THEN offered
    ELSE ChanCap - Len(conns[socks[fd].conn].rx)

SockWritable(fd) ==
    \/ socks[fd].status \in {"refused", "reset"}
    \/ (socks[fd].status = "open" /\ ~socks[fd].full /\ SockSpace(fd, 1) > 0)

\* run()'s rset and wset, in the order of the map.
Rset == <<ListenerFd>> \o Ascending(DOMAIN peers)
Wset == Ascending({fd \in DOMAIN peers :
                     peers[fd].type = SOURCE /\ want_to_write(peers[fd])})
ReadyR == SelectSeq2(Rset, {fd \in DOMAIN peers \cup {ListenerFd} : SockReadable(fd)})
ReadyW == SelectSeq2(Wset, {fd \in DOMAIN peers : peers[fd].type = SOURCE /\ SockWritable(fd)})

\* What recv(limit) may return from the bytes rx in flight: a non-empty prefix,
\* or nothing at end of file.
RecvChoices(rx, limit) ==
    IF rx = <<>> THEN {<<>>} ELSE {Take(rx, k) : k \in 1..Min(limit, Len(rx))}

\* Whether the read step of fd calls recv(), and what it may return.
StepReads(fd) ==
    /\ fd # ListenerFd
    /\ IF peers[fd].type = SINK THEN ~SinkShortcut(peers[fd], data)
       ELSE SourceReads(peers[fd])
ReadInputs(fd) ==
    IF ~StepReads(fd) THEN {<<>>}
    ELSE IF peers[fd].type = SINK
    THEN RecvChoices(conns[peers[fd].conn].rx, SinkRecvLimit(peers[fd], data))
    ELSE RecvChoices(socks[fd].rx, SourceRecvLimit(peers[fd]))

\* What send(outbuf) may do on the socket of Source fd: fail with the refusal
\* of the connection or with its reset (ECONNRESET, EPIPE), or accept from lo up
\* to as many bytes as fit.
SendChoices(fd, outbuf, lo) ==
    IF socks[fd].status = "refused" THEN {[err |-> "refused", n |-> 0]}
    ELSE IF socks[fd].status = "reset" THEN {[err |-> "reset", n |-> 0]}
    ELSE LET hi == Min(Len(outbuf), SockSpace(fd, Len(outbuf)))
         IN {[err |-> "none", n |-> k] : k \in Min(lo, hi)..hi}

\* (changed: the writable descriptors are serviced first)
NextPcWritesFirst(r, w) ==
    IF w # <<>> THEN "write" ELSE IF r # <<>> THEN "read" ELSE "select"

\* Where run() is after a step that leaves r and w to service.
NextPc(r, w) == IF r # <<>> THEN "read" ELSE IF w # <<>> THEN "write" ELSE "select"

\* ------------------------------------------------------------------- setup
\* The caller constructs the tester: TrafficTester.__init__.
Init ==
    /\ \E d \in Payloads, r \in 0..MaxReps :
         /\ data = TesterData(d, r)
         /\ repetitions = TesterReps(d, r)
    /\ timeout \in 0..MaxTimeout
    /\ tests = TestSuiteNew
    /\ peers = <<>>
    /\ pending_close = <<>>
    /\ pc = "setup"
    /\ rq = <<>>
    /\ wq = <<>>
    /\ result = "none"
    /\ nextfd = ListenerFd + 1
    /\ closed = <<>>
    /\ conns = <<>>
    /\ backlog = <<>>
    /\ socks = <<>>
    /\ sent = <<>>
    /\ rcvd = <<>>
    /\ outcome = <<>>
    /\ eofread = {}
    /\ chunks = <<>>
    /\ python3 \in BOOLEAN
    /\ blocked = FALSE
    /\ wret = <<>>
    /\ srcstate = <<>>

\* A connection to the listener: src is the Source that made it (-1: a foreign
\* client), acc the descriptor accept() gave it (0: not accepted yet).
\* (changed: remove() closes the socket, so that only the listener and the
\* sockets of the map are open)
OpenFdsOfMapOnly == {ListenerFd} \cup DOMAIN peers

\* The descriptors in use: the listener and every socket made for a Source or
\* accepted for a Sink, until run() closes it after its loop.
OpenFds == ({ListenerFd} \cup DOMAIN outcome) \ {closed[i] : i \in DOMAIN closed}

\* The descriptor the system gives to the next socket: the lowest one not in use.
LowestFreeFd(open) ==
    CHOOSE n \in 0..Cardinality(open) :
        n \notin open /\ \A m \in 0..(n - 1) : m \in open

NewConn(src, quota) ==
    [rx |-> <<>>, eof |-> FALSE, src |-> src, quota |-> quota, acc |-> 0]
Extend(f, fd, v) == [x \in DOMAIN f \cup {fd} |-> IF x = fd THEN v ELSE f[x]]

\* tt.add(Source(tt, server, data, proxy, repetitions)) before run(), with the
\* tester's payload (the sanity checks of both constructors agree).  A Source
\* without a proxy connects to the tester's own listener.  est: the system
\* completes the connection at once.
AddSource(proxy, dest, est) ==
    /\ pc = "setup"
    /\ Cardinality(DOMAIN peers) < MaxSources
    /\ LET fd == nextfd
           p == SourceNew(data, proxy, repetitions, dest)
           c == Len(conns) + 1
       IN /\ peers' = PeersAdd(peers, fd, p)
          /\ tests' = TestsOnAdd(tests, p)
          /\ nextfd' = LowestFreeFd(OpenFds \cup {nextfd})
          /\ IF est /\ ~proxy
             THEN /\ conns' = Append(conns, NewConn(fd, 0))
                  /\ backlog' = Append(backlog, c)
                  /\ socks' = Extend(socks, fd, [status |-> "open", conn |-> c,
                                                 rx |-> <<>>, eof |-> FALSE,
                                                 replied |-> FALSE, full |-> FALSE,
                                                 dest |-> dest, proxy |-> proxy])
             ELSE /\ socks' = Extend(socks, fd, [status |-> "connecting", conn |-> 0,
                                                 rx |-> <<>>, eof |-> FALSE,
                                                 replied |-> FALSE, full |-> FALSE,
                                                 dest |-> dest, proxy |-> proxy])
                  /\ UNCHANGED <<conns, backlog>>
          /\ sent' = Extend(sent, fd, <<>>)
          /\ rcvd' = Extend(rcvd, fd, <<>>)
          /\ outcome' = Extend(outcome, fd, "none")
    /\ UNCHANGED <<data, repetitions, timeout, pending_close, pc, rq, wq,
                   result, closed>>
    /\ chunks' = Extend(chunks, nextfd, 0)
    /\ srcstate' = Extend(srcstate, nextfd, SourceNew(data, proxy, repetitions, dest).state)
    /\ UNCHANGED <<eofread, python3>>
    /\ blocked' = FALSE
    /\ UNCHANGED wret

\* Source(tt, server, data, proxy, repetitions) when connect() raises an error
\* other than EINPROGRESS (the connection is refused at once): the constructor
\* re-raises it, so add() is never reached and the caller is left with the
\* exception.
ConnectRaises(proxy, dest) ==
    /\ pc = "setup"
    /\ Cardinality(DOMAIN peers) < MaxSources
    /\ socks' = Extend(socks, nextfd, [status |-> "refused", conn |-> 0,
                                       rx |-> <<>>, eof |-> FALSE,
                                       replied |-> FALSE, full |-> FALSE,
                                       dest |-> dest, proxy |-> proxy])
    /\ nextfd' = LowestFreeFd(OpenFds \cup {nextfd})
    /\ sent' = Extend(sent, nextfd, <<>>)
    /\ rcvd' = Extend(rcvd, nextfd, <<>>)
    /\ outcome' = Extend(outcome, nextfd, "raised")
    /\ chunks' = Extend(chunks, nextfd, 0)
    /\ srcstate' = Extend(srcstate, nextfd, CONNECTING)
    /\ pc' = "raised"
    /\ blocked' = FALSE
    /\ UNCHANGED wret
    /\ UNCHANGED <<data, repetitions, timeout, tests, peers, pending_close, rq, wq,
                   result, closed, conns, backlog, eofread, python3>>

\* The caller calls run().
StartRun ==
    /\ pc = "setup"
    /\ pc' = "select"
    /\ UNCHANGED <<data, repetitions, timeout, tests, peers, pending_close,
                   rq, wq, result, nextfd, closed, conns, backlog, socks, sent,
                   rcvd, outcome>>
    /\ UNCHANGED <<eofread, chunks, python3, srcstate>>
    /\ blocked' = FALSE
    /\ UNCHANGED wret

\* --------------------------------------------------------------------- run
\* select() returns with something ready: a pass begins.
Select ==
    /\ pc = "select"
    /\ LoopGoesOn
    /\ ReadyR # <<>> \/ ReadyW # <<>>
    /\ rq' = ReadyR
    /\ wq' = ReadyW
    /\ pc' = NextPc(ReadyR, ReadyW)
    /\ UNCHANGED <<data, repetitions, timeout, tests, peers, pending_close,
                   result, nextfd, closed, conns, backlog, socks, sent, rcvd, outcome,
                   eofread, chunks, python3, srcstate>>
    /\ blocked' = FALSE
    /\ UNCHANGED wret

TimeoutTickAnyPass ==
    /\ pc = "select"
    /\ LoopGoesOn
    /\ timeout' = timeout - 1
    /\ UNCHANGED <<data, repetitions, tests, peers, pending_close, pc, rq, wq,
                   result, nextfd, closed, conns, backlog, socks, sent, rcvd, outcome,
                   eofread, chunks, python3, srcstate>>
    /\ blocked' = FALSE
    /\ UNCHANGED wret

\* select() returns after its second with nothing ready.
TimeoutTick ==
    /\ pc = "select"
    /\ LoopGoesOn
    /\ ReadyR = <<>> /\ ReadyW = <<>>
    /\ timeout' = timeout - 1
    /\ UNCHANGED <<data, repetitions, tests, peers, pending_close, pc, rq, wq,
                   result, nextfd, closed, conns, backlog, socks, sent, rcvd, outcome,
                   eofread, chunks, python3, srcstate>>
    /\ blocked' = FALSE
    /\ UNCHANGED wret

\* Listener.accept for the readable listener.
Accept ==
    /\ pc = "read"
    /\ rq # <<>>
    /\ Head(rq) = ListenerFd
    /\ LET fd == nextfd
           p == SinkNew(repetitions, Head(backlog))
       IN /\ peers' = PeersAdd(peers, fd, p)
          /\ tests' = TestsOnAdd(tests, p)
          /\ nextfd' = LowestFreeFd(OpenFds \cup {nextfd})
          /\ sent' = Extend(sent, fd, <<>>)
          /\ rcvd' = Extend(rcvd, fd, <<>>)
          /\ outcome' = Extend(outcome, fd, "none")
    /\ conns' = [conns EXCEPT ![Head(backlog)].acc = nextfd]
    /\ backlog' = Tail(backlog)
    /\ rq' = Tail(rq)
    /\ pc' = NextPc(Tail(rq), wq)
    /\ UNCHANGED <<data, repetitions, timeout, pending_close, wq, result,
                   closed, socks>>
    /\ chunks' = Extend(chunks, nextfd, 0)
    /\ UNCHANGED <<eofread, python3, srcstate>>
    /\ blocked' = FALSE
    /\ UNCHANGED wret

StepOutcome(n) == IF n > 0 THEN "none" ELSE IF n = 0 THEN "succeeded" ELSE "failed"

\* on_readable of the peer at fd, with inp what its recv() returned.
\* The recv() of a Source whose connection was reset raises (ECONNRESET), and
\* nothing in on_readable or run() catches it.
RecvRaises(fd) ==
    /\ peers[fd].type = SOURCE
    /\ SourceReads(peers[fd])
    /\ socks[fd].status = "reset"

ReadResult(fd, inp) ==
    IF RecvRaises(fd) THEN [p |-> peers[fd], n |-> -1, raised |-> TRUE]
    ELSE IF peers[fd].type = SINK THEN SinkOnReadable(peers[fd], data, inp)
    ELSE SourceOnReadable(peers[fd], inp, python3)

\* The body of run()'s loop over the readable descriptors, for a Sink or a
\* Source at fd: on_readable, then the tally and the map.
ReadApply(fd, inp) ==
    LET p == peers[fd]
        r == ReadResult(fd, inp)
        recvd == StepReads(fd) /\ ~RecvRaises(fd)
        used == IF recvd THEN Len(inp) ELSE 0
    IN /\ IF r.raised
          THEN /\ peers' = PeersStep(peers, fd, r.p)
               /\ UNCHANGED <<tests, pending_close>>
          ELSE /\ tests' = TestsOnRead(tests, r.n)
               /\ peers' = IF r.n > 0 THEN PeersStep(peers, fd, r.p)
                           ELSE PeersRemove(peers, fd)
               /\ pending_close' = IF r.n > 0 THEN pending_close
                                   ELSE Append(pending_close, fd)
       /\ outcome' = [outcome EXCEPT ![fd] = IF r.raised THEN "raised"
                                             ELSE StepOutcome(r.n)]
       /\ rcvd' = [rcvd EXCEPT ![fd] = @ \o Take(inp, used)]
       /\ eofread' = IF recvd /\ inp = <<>> THEN eofread \cup {fd} ELSE eofread
       /\ chunks' = [chunks EXCEPT ![fd] = IF p.type = SINK /\ used > 0 THEN @ + 1 ELSE @]
       /\ IF p.type = SINK
          THEN /\ conns' = [conns EXCEPT ![p.conn].rx = Drop(@, used)]
               /\ UNCHANGED <<socks, srcstate>>
          ELSE /\ socks' = [socks EXCEPT ![fd].rx = Drop(@, used)]
               /\ srcstate' = [srcstate EXCEPT ![fd] = r.p.state]
               /\ UNCHANGED conns

\* The read step of run() for the first readable descriptor, a Sink or a Source.
ReadStep ==
    /\ pc = "read"
    /\ rq # <<>>
    /\ Head(rq) # ListenerFd
    /\ \E inp \in ReadInputs(Head(rq)) :
         /\ ReadApply(Head(rq), inp)
         /\ IF ReadResult(Head(rq), inp).raised
            THEN pc' = "raised" /\ UNCHANGED rq
            ELSE rq' = Tail(rq) /\ pc' = NextPc(Tail(rq), wq)
    /\ UNCHANGED <<data, repetitions, timeout, wq, result, nextfd, closed,
                   backlog, sent, python3>>
    /\ blocked' = FALSE
    /\ UNCHANGED wret

\* A writable descriptor whose peer left the map in the read phase is skipped.
WriteSkip ==
    /\ pc = "write"
    /\ wq # <<>>
    /\ Head(wq) \notin DOMAIN peers
    /\ wq' = Tail(wq)
    /\ pc' = NextPc(<<>>, Tail(wq))
    /\ UNCHANGED <<data, repetitions, timeout, tests, peers, pending_close,
                   rq, result, nextfd, closed, conns, backlog, socks, sent, rcvd,
                   outcome>>
    /\ UNCHANGED <<eofread, chunks, python3, srcstate>>
    /\ blocked' = FALSE
    /\ UNCHANGED wret

\* The write step of run() for the first writable descriptor: on_writable,
\* then the tally and the map.  lo: the fewest bytes send() takes when it can
\* take some.
WriteStep(lo) ==
    /\ pc = "write"
    /\ wq # <<>>
    /\ Head(wq) \in DOMAIN peers
    /\ \E snd \in SendChoices(Head(wq), SourceWritePrep(peers[Head(wq)]).outbuf, lo) :
         LET fd == Head(wq)
             p == peers[fd]
             r == SourceOnWritable(p, snd)
             bytes == Take(SourceWritePrep(p).outbuf, snd.n)
         IN /\ IF r.raised
               THEN /\ pc' = "raised"
                    /\ peers' = PeersStep(peers, fd, r.p)
                    /\ UNCHANGED <<tests, pending_close, wq>>
               ELSE /\ tests' = TestsOnWrite(tests, r.n)
                    /\ peers' = IF r.n > 0 THEN PeersStep(peers, fd, r.p)
                                ELSE PeersRemove(peers, fd)
                    /\ pending_close' = IF r.n > 0 THEN pending_close
                                        ELSE Append(pending_close, fd)
                    /\ wq' = Tail(wq)
                    /\ pc' = NextPc(<<>>, Tail(wq))
            /\ outcome' = [outcome EXCEPT ![fd] = IF r.raised THEN "raised"
                                                  ELSE StepOutcome(r.n)]
            /\ sent' = [sent EXCEPT ![fd] = @ \o bytes]
            /\ srcstate' = [srcstate EXCEPT ![fd] = r.p.state]
            /\ blocked' = r.slept
            /\ wret' = IF r.raised THEN wret
                       ELSE Extend(wret, fd, [n |-> r.n, state |-> r.p.state])
            /\ IF socks[fd].conn # 0
               THEN conns' = [conns EXCEPT ![socks[fd].conn].rx = @ \o bytes]
               ELSE UNCHANGED conns
    /\ UNCHANGED <<data, repetitions, timeout, rq, result, nextfd, closed,
                   backlog, socks, rcvd>>
    /\ UNCHANGED <<eofread, chunks, python3>>

LoopExitKeepsListener ==
    /\ pc = "select"
    /\ ~LoopGoesOn
    /\ pending_close' = pending_close \o Ascending(DOMAIN peers)
    /\ closed' = pending_close'
    /\ result' = RunResult(tests)
    /\ pc' = "done"
    /\ UNCHANGED <<data, repetitions, timeout, tests, peers, rq, wq, nextfd,
                   conns, backlog, socks, sent, rcvd, outcome, eofread, chunks,
                   python3, srcstate>>
    /\ blocked' = FALSE
    /\ UNCHANGED wret

LoopExitLeavesPeers ==
    /\ pc = "select"
    /\ ~LoopGoesOn
    /\ pending_close' = pending_close
    /\ closed' = <<ListenerFd>> \o pending_close'
    /\ result' = RunResult(tests)
    /\ pc' = "done"
    /\ UNCHANGED <<data, repetitions, timeout, tests, peers, rq, wq, nextfd,
                   conns, backlog, socks, sent, rcvd, outcome, eofread, chunks,
                   python3, srcstate>>
    /\ blocked' = FALSE
    /\ UNCHANGED wret

\* run() leaves its loop: the sockets still in the map join pending_close,
\* everything is closed, and the result is returned.
LoopExit ==
    /\ pc = "select"
    /\ ~LoopGoesOn
    /\ pending_close' = pending_close \o Ascending(DOMAIN peers)
    /\ closed' = <<ListenerFd>> \o pending_close'
    /\ result' = RunResult(tests)
    /\ pc' = "done"
    /\ UNCHANGED <<data, repetitions, timeout, tests, peers, rq, wq, nextfd,
                   conns, backlog, socks, sent, rcvd, outcome, eofread, chunks,
                   python3, srcstate>>
    /\ blocked' = FALSE
    /\ UNCHANGED wret

\* ------------------------------------------------------------- environment
\* The network and the peers act between two passes of run(): a step sees the
\* sockets only through select(), recv() and send(), so what happens during a
\* pass is seen as if it had happened before it or after it.
Live == pc = "select"

\* The system completes the connection of a Source; one made to the tester's
\* own listener waits there to be accepted.
Establish(fd) ==
    /\ Live
    /\ fd \in DOMAIN peers
    /\ peers[fd].type = SOURCE
    /\ socks[fd].status = "connecting"
    /\ IF peers[fd].proxy
       THEN /\ socks' = [socks EXCEPT ![fd].status = "open"]
            /\ UNCHANGED <<conns, backlog>>
       ELSE /\ socks' = [socks EXCEPT ![fd].status = "open", ![fd].conn = Len(conns) + 1]
            /\ conns' = Append(conns, NewConn(fd, 0))
            /\ backlog' = Append(backlog, Len(conns) + 1)
    /\ UNCHANGED <<progvars, sent, rcvd, outcome, eofread, chunks>>

\* The proxy refuses the connection of a Source.
Refuse(fd) ==
    /\ Live
    /\ fd \in DOMAIN peers
    /\ peers[fd].type = SOURCE
    /\ peers[fd].proxy
    /\ socks[fd].status = "connecting"
    /\ socks' = [socks EXCEPT ![fd].status = "refused"]
    /\ UNCHANGED <<progvars, conns, backlog, sent, rcvd, outcome, eofread, chunks>>

\* What a proxy may answer: granted, rejected, a wrong first byte, a short
\* reply, a granted reply with a byte after it.
ProxyReplies == { <<0, 90, 0, 0, 0, 0, 0, 0>>, <<0, 91, 0, 0, 0, 0, 0, 0>>,
                  <<4, 90, 0, 0, 0, 0, 0, 0>>, <<0, 90, 0>>,
                  <<0, 90, 0, 0, 0, 0, 0, 0, 7>> }

ProxyReply(fd, r) ==
    /\ Live
    /\ fd \in DOMAIN socks
    /\ socks[fd].status = "open"
    /\ socks[fd].conn = 0
    /\ ~socks[fd].replied
    /\ ~socks[fd].eof
    /\ socks' = [socks EXCEPT ![fd].rx = r, ![fd].replied = TRUE]
    /\ UNCHANGED <<progvars, conns, backlog, sent, rcvd, outcome, eofread, chunks>>

ProxyClose(fd) ==
    /\ Live
    /\ fd \in DOMAIN socks
    /\ socks[fd].status = "open"
    /\ socks[fd].conn = 0
    /\ ~socks[fd].eof
    /\ socks' = [socks EXCEPT ![fd].eof = TRUE]
    /\ UNCHANGED <<progvars, conns, backlog, sent, rcvd, outcome, eofread, chunks>>

\* The proxy resets the connection: the Source's recv() and send() raise.
ProxyReset(fd) ==
    /\ Live
    /\ fd \in DOMAIN socks
    /\ socks[fd].status = "open"
    /\ socks[fd].conn = 0
    /\ socks' = [socks EXCEPT ![fd].status = "reset"]
    /\ UNCHANGED <<progvars, conns, backlog, sent, rcvd, outcome, eofread, chunks>>

\* The proxy stops reading: the bytes the Source has sent fill the buffers, and
\* its socket takes no more and is not reported writable.
ProxyStall(fd) ==
    /\ Live
    /\ fd \in DOMAIN socks
    /\ socks[fd].status = "open"
    /\ socks[fd].conn = 0
    /\ sent[fd] # <<>>
    /\ ~socks[fd].full
    /\ socks' = [socks EXCEPT ![fd].full = TRUE]
    /\ UNCHANGED <<progvars, conns, backlog, sent, rcvd, outcome, eofread, chunks>>

\* A foreign client (the far end of a relayed stream) connects to the listener,
\* sends bytes and closes.
IsExt(c) == conns[c].src = -1

ExtConnect ==
    /\ Live
    /\ Cardinality({c \in DOMAIN conns : IsExt(c)}) < MaxExt
    /\ conns' = Append(conns, NewConn(-1, MaxStream))
    /\ backlog' = Append(backlog, Len(conns) + 1)
    /\ UNCHANGED <<progvars, socks, sent, rcvd, outcome, eofread, chunks>>

ExtSend(c, b) ==
    /\ Live
    /\ IsExt(c)
    /\ conns[c].quota > 0
    /\ ~conns[c].eof
    /\ conns' = [conns EXCEPT ![c].rx = Append(@, b), ![c].quota = @ - 1]
    /\ UNCHANGED <<progvars, backlog, socks, sent, rcvd, outcome, eofread, chunks>>

ExtClose(c) ==
    /\ Live
    /\ IsExt(c)
    /\ ~conns[c].eof
    /\ conns' = [conns EXCEPT ![c].eof = TRUE]
    /\ UNCHANGED <<progvars, backlog, socks, sent, rcvd, outcome, eofread, chunks>>

\* ---------------------------------------------------------- specifications
Fds == 1..(MaxSources + MaxSources + MaxExt)

\* Any network around Sources that connect to the tester's own listener:
\* foreign clients connect to it too, send() takes any number of bytes, and
\* the connections complete when they please.
Next ==
    \/ AddSource(FALSE, RunDest, FALSE)
    \/ StartRun
    \/ Select
    \/ TimeoutTick
    \/ Accept
    \/ ReadStep
    \/ WriteStep(0)
    \/ LoopExit
    \/ \E fd \in Fds : Establish(fd)
    \/ ExtConnect
    \/ \E c \in DOMAIN conns, b \in Bytes : ExtSend(c, b)
    \/ \E c \in DOMAIN conns : ExtClose(c)

Spec == Init /\ [][Next]_vars

\* A reliable network and nobody else: the Sources connect to the tester's own
\* listener and are connected at once, send() takes at least one byte when
\* there is room, and the budget is not zero.
RInit == Init /\ timeout >= 1

RNext ==
    \/ AddSource(FALSE, RunDest, TRUE)
    \/ StartRun
    \/ Select
    \/ TimeoutTick
    \/ Accept
    \/ ReadStep
    \/ WriteStep(1)
    \/ LoopExit

RSpec == RInit /\ [][RNext]_vars

\* Sources that connect through a SOCKS proxy, to a literal address or to a
\* host name.  The proxy accepts or refuses the connection, answers the request
\* or not, closes, resets the connection or stops reading; send() takes any
\* number of bytes.  Nothing reaches the listener.
ProxyRun ==
    \/ StartRun
    \/ Select
    \/ TimeoutTick
    \/ ReadStep
    \/ WriteSkip
    \/ WriteStep(0)
    \/ LoopExit

ProxyNext ==
    \/ \E d \in Dests : AddSource(TRUE, d, FALSE)
    \/ \E d \in Dests : ConnectRaises(TRUE, d)
    \/ ProxyRun
    \/ \E fd \in Fds : Establish(fd)
    \/ \E fd \in Fds : Refuse(fd)
    \/ \E fd \in Fds, r \in ProxyReplies : ProxyReply(fd, r)
    \/ \E fd \in Fds : ProxyClose(fd)
    \/ \E fd \in Fds : ProxyReset(fd)
    \/ \E fd \in Fds : ProxyStall(fd)

ProxySpec == Init /\ [][ProxyNext]_vars

\* The same, with the thread that runs the tester taking its next step whenever
\* it has one: run() is sequential code, and select() returns within a second.
ProxyFairSpec == Init /\ [][ProxyNext]_vars /\ WF_vars(ProxyRun)

\* One Sink alone: the read step of run() applied, as long as the Sink is in
\* the map and readable, to a Sink whose connection carries a given stream,
\* closed by the peer or not.
SinkStreams == SeqsUpTo(Bytes, MaxLen * MaxReps + 1)
SinkFd == ListenerFd + 1

SinkInit ==
    /\ \E d \in Payloads, r \in 0..MaxReps :
         /\ data = TesterData(d, r)
         /\ repetitions = TesterReps(d, r)
    /\ timeout = 0
    /\ tests = TestSuiteAdd(TestSuiteNew)
    /\ peers = (SinkFd :> SinkNew(repetitions, 1))
    /\ pending_close = <<>>
    /\ pc = "sink"
    /\ rq = <<>>
    /\ wq = <<>>
    /\ result = "none"
    /\ nextfd = SinkFd + 1
    /\ closed = <<>>
    /\ \E s \in SinkStreams, e \in BOOLEAN :
         conns = << [rx |-> s, eof |-> e, src |-> -1, quota |-> 0, acc |-> SinkFd] >>
    /\ backlog = <<>>
    /\ socks = <<>>
    /\ sent = <<>>
    /\ rcvd = (SinkFd :> <<>>)
    /\ outcome = (SinkFd :> "none")
    /\ eofread = {}
    /\ chunks = (SinkFd :> 0)
    /\ python3 \in BOOLEAN
    /\ blocked = FALSE
    /\ wret = <<>>
    /\ srcstate = <<>>

SinkFeed ==
    /\ pc = "sink"
    /\ SinkFd \in DOMAIN peers
    /\ SockReadable(SinkFd)
    /\ \E inp \in ReadInputs(SinkFd) :
         /\ ReadApply(SinkFd, inp)
         /\ pc' = IF ReadResult(SinkFd, inp).raised THEN "raised" ELSE pc
    /\ UNCHANGED <<data, repetitions, timeout, rq, wq, result, nextfd, closed,
                   backlog, sent, python3>>
    /\ blocked' = FALSE
    /\ UNCHANGED wret

SinkNext == SinkFeed

SinkSpec == SinkInit /\ [][SinkNext]_vars

\* ------------------------------------------------------------ properties
\* What a Sink expects in all, the Sources registered, the stream a peer has
\* put on the connection accepted as fd.
Expected == Repeat(data, repetitions)
Sources == DOMAIN socks
Sinks == DOMAIN outcome \ DOMAIN socks
ConnOf(fd) == CHOOSE c \in DOMAIN conns : conns[c].acc = fd
Stream(fd) == rcvd[fd] \o conns[ConnOf(fd)].rx
FailedRoles == {fd \in DOMAIN outcome : outcome[fd] = "failed"}
OneByteOff(s, t) ==
    /\ Len(s) = Len(t)
    /\ Cardinality({i \in 1..Len(s) : s[i] # t[i]}) = 1

\* The Sink has nothing left to do: it left the map, or nothing is to be read.
SinkAtRest(fd) == fd \notin DOMAIN peers \/ ~SockReadable(fd)

\* C1: whenever run() has returned, its result is true if and only if the
\* tally has no pending test and no failed test.
RunResultIsTally ==
    pc = "done" => (result = (tests.not_done = 0 /\ tests.failures = 0))

RunReturnedTrue == pc = "done" /\ result = TRUE /\ tests.successes > 0

\* C2: in every state of a run, pending + succeeded + failed is the number of
\* tests registered so far (one per Source added).
TallySum ==
    tests.not_done + tests.successes + tests.failures = Cardinality(Sources)

TallyMoved ==
    /\ tests.successes > 0
    /\ tests.failures > 0
    /\ Sinks # {}

\* C3: the success and failure credits never exceed the registered tests, so
\* the pending count never drops below zero.
AtMostOneCreditPerTest ==
    /\ tests.not_done >= 0
    /\ tests.successes + tests.failures <= Cardinality(Sources)

\* C4: one Source sending the payload R times to the tester's own listener
\* over a reliable transport: when run() returns, the test has succeeded, and it
\* never fails.
ExactDelivery ==
    /\ tests.failures = 0
    /\ (pc = "done" /\ Sources # {}) =>
          (result = TRUE /\ tests.successes = Cardinality(Sources))

\* The part of C4 the code keeps: a payload that is not empty is delivered.
DeliveryOfNonEmptyPayload ==
    (pc = "done" /\ Sources # {} /\ data # <<>>) =>
        (result = TRUE /\ tests.successes = Cardinality(Sources) /\ tests.failures = 0)

\* C5: with an empty payload or no repetition, the Source and the Sink of a
\* connection both resolve succeeded, and no byte is read or written.
DegeneratePayloadResolves ==
    (pc = "done" /\ data = <<>>) =>
        \A fd \in DOMAIN outcome :
            outcome[fd] = "succeeded" /\ sent[fd] = <<>> /\ rcvd[fd] = <<>>

\* C6: a Sink that has received a proper prefix of the expected stream and then
\* reads the end of file reports failure, and the tally counts it failed.
EarlyCloseFails ==
    \A fd \in eofread \cap Sinks :
        (data # <<>> /\ IsPrefix(rcvd[fd], Expected) /\ rcvd[fd] # Expected) =>
            (outcome[fd] = "failed" /\ tests.failures = Cardinality(FailedRoles))

EarlyCloseSeen ==
    \E fd \in eofread \cap Sinks :
        /\ rcvd[fd] # <<>>
        /\ IsPrefix(rcvd[fd], Expected)
        /\ rcvd[fd] # Expected
        /\ outcome[fd] = "failed"

\* C7: a stream that differs from the expected one in exactly one byte never
\* makes the Sink succeed, and once the Sink is at rest it has failed, however
\* the stream is cut into reads.
CorruptionDetected ==
    OneByteOff(Stream(SinkFd), Expected) =>
        /\ outcome[SinkFd] # "succeeded"
        /\ SinkAtRest(SinkFd) => (outcome[SinkFd] = "failed" /\ tests.failures = 1)

CorruptionSeen ==
    /\ OneByteOff(Stream(SinkFd), Expected)
    /\ outcome[SinkFd] = "failed"
    /\ chunks[SinkFd] >= 2
    /\ repetitions >= 2

\* The outcome of a Sink p when the stream rx is there from the start and every
\* recv() returns as much as it is asked for.
RECURSIVE WholeOutcome(_, _, _)
WholeOutcome(p, rx, eof) ==
    IF rx = <<>> /\ ~eof THEN "none"
    ELSE LET inp == IF SinkShortcut(p, data) THEN <<>>
                    ELSE Take(rx, Min(SinkRecvLimit(p, data), Len(rx)))
             r == SinkOnReadable(p, data, inp)
         IN IF r.raised THEN "raised"
            ELSE IF r.n > 0 THEN WholeOutcome(r.p, Drop(rx, Len(inp)), eof)
            ELSE StepOutcome(r.n)

\* C8: for a given stream (closed or not), the outcome of the Sink at rest is
\* the same for every cut of the stream into reads as for the stream read whole.
ChunkingIndependent ==
    SinkAtRest(SinkFd) =>
        outcome[SinkFd] = WholeOutcome(SinkNew(repetitions, 1), Stream(SinkFd),
                                       conns[1].eof)

ChunkedDelivery ==
    /\ SinkAtRest(SinkFd)
    /\ outcome[SinkFd] = "succeeded"
    /\ Len(data) >= 2
    /\ chunks[SinkFd] > repetitions

\* C9: a Sink whose peer delivers the whole expected stream and then at least
\* one more byte ends failed.
ExcessBytesFail ==
    \A fd \in Sinks :
        (/\ data # <<>>
         /\ outcome[fd] # "none"
         /\ IsPrefix(Expected, Stream(fd))
         /\ Len(Stream(fd)) > Len(Expected)) => outcome[fd] = "failed"

\* C10: with a payload that is not empty, when run() returns true every
\* registered Source has a Sink that received and verified its whole stream.
NoFalsePass ==
    (pc = "done" /\ result = TRUE /\ data # <<>>) =>
        \A s \in Sources :
            \E c \in DOMAIN conns :
                /\ conns[c].src = s
                /\ conns[c].acc # 0
                /\ outcome[conns[c].acc] = "succeeded"
                /\ rcvd[conns[c].acc] = Expected

\* C11: a pass that only spends a second of the budget leaves the tally as it
\* is, and so does the exit of the loop; when run() returns with a test not
\* resolved, it returns false.
TimeoutLeavesPending ==
    [][/\ timeout' < timeout => tests' = tests
       /\ pc' = "done" => /\ tests' = tests
                          /\ tests.not_done # 0 => result' = FALSE]_vars

TimedOutPending ==
    /\ pc = "done"
    /\ timeout = 0
    /\ result = FALSE
    /\ tests = [not_done |-> 1, successes |-> 0, failures |-> 0]
    /\ \E fd \in Sources : socks[fd].status = "connecting"

\* C12: every execution of run() comes to its end: once the loop is entered,
\* run() eventually returns (or is left by an exception), whatever the peers do.
RunTerminates == (pc = "select") ~> (pc \in {"done", "raised"})

\* The Sources that go through a proxy, a 16-bit number in network order, and
\* two byte strings of which one begins the other.
ProxySources == {fd \in Sources : socks[fd].proxy}
BigEndian16(n) == <<n \div 256, n % 256>>
Comparable(s, t) == IsPrefix(s, t) \/ IsPrefix(t, s)

\* C13: what a Source sent to a literal IPv4 address a.b.c.d and a port writes
\* to its proxy begins with 04 01, the port in network order, a b c d and 00;
\* for 10.0.0.5 and port 80 that is 04 01 00 50 0A 00 00 05 00.
RequestForAddress ==
    \A fd \in ProxySources :
        socks[fd].dest.ipv4 =>
            /\ Comparable(sent[fd], <<4, 1>> \o BigEndian16(socks[fd].dest.port)
                                       \o socks[fd].dest.addr \o <<0>>)
            /\ socks[fd].dest = [ipv4 |-> TRUE, addr |-> <<10, 0, 0, 5>>, port |-> 80]
                 => Comparable(sent[fd], <<4, 1, 0, 80, 10, 0, 0, 5, 0>>)

RequestForAddressSent ==
    \E fd \in ProxySources :
        /\ socks[fd].dest.ipv4
        /\ Len(sent[fd]) > 9
        /\ Take(sent[fd], 9) = <<4, 1, 0, 80, 10, 0, 0, 5, 0>>

\* C14: what a Source sent to a host name writes to its proxy begins with
\* 04 01, the port in network order, the address 00 00 00 01, 00 for the empty
\* user id, then the name's bytes and a final 00.
RequestForName ==
    \A fd \in ProxySources :
        ~socks[fd].dest.ipv4 =>
            Comparable(sent[fd], <<4, 1>> \o BigEndian16(socks[fd].dest.port)
                                    \o <<0, 0, 0, 1>> \o <<0>>
                                    \o socks[fd].dest.addr \o <<0>>)

RequestForNameSent ==
    \E fd \in ProxySources :
        /\ ~socks[fd].dest.ipv4
        /\ Len(sent[fd]) > 11
        /\ Take(sent[fd], 11) = <<4, 1, 1, 2, 0, 0, 0, 1, 0, 104, 0>>

\* The request a proxy is sent for a destination, the reply bytes a Source has
\* read, and whether they are a whole reply that grants the request.
Request(d) ==
    <<4, 1>> \o BigEndian16(d.port)
             \o (IF d.ipv4 THEN d.addr \o <<0>> ELSE <<0, 0, 0, 1, 0>> \o d.addr \o <<0>>)
Granted(fd) == Len(rcvd[fd]) = 8 /\ rcvd[fd][1] = 0 /\ rcvd[fd][2] = 90
Rejected(fd) ==
    \/ Len(rcvd[fd]) = 8 /\ ~Granted(fd)
    \/ Len(rcvd[fd]) < 8 /\ fd \in eofread

\* C15: once a Source has read eight reply bytes that do not begin with 00 5A,
\* or the end of file before the eighth, its step has reported failure, the
\* tally has counted it failed and the Source has left the map.
ProxyRejectionFails ==
    \A fd \in ProxySources :
        Rejected(fd) =>
            /\ outcome[fd] = "failed"
            /\ tests.failures = Cardinality(FailedRoles)
            /\ fd \notin DOMAIN peers

\* The part of C15 that holds whatever the interpreter: the end of file.
ProxyCloseFails ==
    \A fd \in ProxySources :
        (Len(rcvd[fd]) < 8 /\ fd \in eofread) =>
            /\ outcome[fd] = "failed"
            /\ tests.failures = Cardinality(FailedRoles)
            /\ fd \notin DOMAIN peers

\* C16: a Source that goes through a proxy has written bytes after its request
\* only if it has read a whole reply that grants the request.
NoPayloadBeforeGrant ==
    \A fd \in ProxySources :
        /\ Comparable(sent[fd], Request(socks[fd].dest))
        /\ Len(sent[fd]) > Len(Request(socks[fd].dest)) => Granted(fd)

PayloadAfterGrant ==
    \E fd \in ProxySources :
        /\ Granted(fd)
        /\ sent[fd] = Request(socks[fd].dest) \o Expected
        /\ Len(Expected) >= 2

\* The part of C15 that holds under Python 2.
ProxyRejectionFailsPython2 == ~python3 => ProxyRejectionFails

\* C17: a socket error is resolved to the outcome of its connection: a Source
\* whose connection was refused or reset has a step that reported more work,
\* success or failure, and run() goes on.
ErrorIsolation ==
    \A fd \in Sources :
        socks[fd].status \in {"refused", "reset"} =>
            /\ outcome[fd] \in {"none", "succeeded", "failed"}
            /\ pc # "raised"

\* C18: a Sink writes back the bytes it reads, in order (what it has written is
\* a prefix of what it has read, and all of it once the Sink has ended), and
\* when run() returns true the tally holds two entries for every Source.
EchoMode ==
    /\ \A fd \in Sinks :
          /\ IsPrefix(sent[fd], rcvd[fd])
          /\ (fd \notin DOMAIN peers /\ outcome[fd] = "succeeded") => sent[fd] = rcvd[fd]
    /\ (pc = "done" /\ result = TRUE) =>
          tests.not_done + tests.successes + tests.failures = 2 * Cardinality(Sources)

\* C19: the write step in which a Source hands its last bytes to the socket and
\* leaves the map takes one test from pending to succeeded.
SourceCompletionCredited ==
    [][\A fd \in DOMAIN peers :
          (/\ peers[fd].type = SOURCE
           /\ pc = "write"
           /\ fd \notin DOMAIN peers'
           /\ sent'[fd] # sent[fd]
           /\ outcome'[fd] = "succeeded") =>
              /\ tests'.successes = tests.successes + 1
              /\ tests'.not_done = tests.not_done - 1]_vars

\* C20: the state of a Source never goes back along NOT_CONNECTED, CONNECTING,
\* CONNECTING_THROUGH_PROXY, CONNECTED (the order of their numbers).
StateOnlyForward ==
    [][\A fd \in DOMAIN srcstate : srcstate'[fd] >= srcstate[fd]]_vars

\* The part of C20 that holds: the Sources that stay in the map.
StateForwardInMap ==
    [][\A fd \in DOMAIN peers \cap DOMAIN peers' :
          peers[fd].type = SOURCE => peers'[fd].state >= peers[fd].state]_vars


StallGuard ==
    [][\A fd \in Sources \ ProxySources :
         (pc = "write" /\ wq # <<>> /\ Head(wq) = fd /\ fd \in DOMAIN peers)
         => LET wrote == Len(sent'[fd]) - Len(sent[fd])
                zeros == peers[fd].sent_no_bytes
                stalled == outcome'[fd] = "failed"
            IN /\ stalled <=> (wrote = 0 /\ zeros = 1)
               /\ (wrote > 0 /\ fd \in DOMAIN peers')
                     => peers'[fd].sent_no_bytes = 0
               /\ (wrote = 0 /\ fd \in DOMAIN peers')
                     => peers'[fd].sent_no_bytes = zeros + 1
               /\ stalled => /\ sent[fd] # Expected
                              /\ tests'.failures = tests.failures + 1
                              /\ fd \notin DOMAIN peers']_vars

\* A Source was abandoned for stalling after it had sent a part of its stream.
StalledAfterProgress ==
    \E fd \in Sources \ ProxySources :
        /\ outcome[fd] = "failed"
        /\ sent[fd] # <<>>
        /\ sent[fd] # Expected
        /\ tests.failures = 1

TimeoutOnlyTicks ==
    [][timeout' # timeout
         => /\ timeout' = timeout - 1
            /\ pc = "select" /\ pc' = "select"
            /\ ReadyR = <<>> /\ ReadyW = <<>>
            /\ tests' = tests
            /\ peers' = peers
            /\ outcome' = outcome /\ sent' = sent /\ rcvd' = rcvd]_vars

\* The budget ran down to zero in a run that had accepted a connection before
\* and still has a test pending.
TickedAfterTraffic ==
    /\ timeout = 0
    /\ Sinks # {}
    /\ tests.not_done > 0

\* C25: a role whose read step or write step has reported success or failure
\* is out of the map from the end of that step on.
TerminalRoleRemoved ==
    \A fd \in DOMAIN outcome :
        outcome[fd] \in {"succeeded", "failed"} => fd \notin DOMAIN peers

\* Between two passes, one role has failed and another has succeeded, both are
\* out of the map, and the run goes on.
TerminalRolesGone ==
    /\ pc = "select"
    /\ \E fd \in DOMAIN outcome : outcome[fd] = "failed" /\ fd \notin DOMAIN peers
    /\ \E fd \in DOMAIN outcome : outcome[fd] = "succeeded" /\ fd \notin DOMAIN peers

\* The sockets that run() has closed.
ClosedFds == {closed[i] : i \in DOMAIN closed}

\* C26: while run() is still in its loop, the socket of every role that has
\* reported success or failure is closed.
ClosedWhenTerminal ==
    \A fd \in DOMAIN outcome :
        (outcome[fd] \in {"succeeded", "failed"} /\ pc # "done" /\ LoopGoesOn)
        => fd \in ClosedFds

\* C27: the step in which run() leaves its loop closes the listener and every
\* socket still in the map, and leaves the three counts of the tally, and the
\* outcome of every role, as they were.
TeardownKeepsTally ==
    [][(pc = "select" /\ pc' = "done")
         => /\ tests' = tests
            /\ outcome' = outcome
            /\ DOMAIN peers \cup {ListenerFd} \subseteq ClosedFds']_vars

\* run() has returned with two roles still in the map and a test pending, and
\* their sockets and the listener are closed.
TornDownWithPending ==
    /\ pc = "done"
    /\ Cardinality(DOMAIN peers) = 2
    /\ tests.not_done > 0
    /\ DOMAIN peers \cup {ListenerFd} \subseteq ClosedFds

\* The sockets in pending_close, and whether a sequence names a socket twice.
PendingFds == {pending_close[i] : i \in DOMAIN pending_close}
NoDuplicate(s) == \A i, j \in DOMAIN s : s[i] = s[j] => i = j

\* C28: at every moment the socket of every Source and Sink is either in the
\* map or in pending_close, never in both and never in neither, and when
\* run() has returned each of them and the listener has been closed once.
InMapOrPendingClose ==
    /\ \A fd \in DOMAIN outcome : (fd \in DOMAIN peers) # (fd \in PendingFds)
    /\ pc = "done" => /\ NoDuplicate(closed)
                      /\ ClosedFds = {ListenerFd} \cup DOMAIN outcome

\* C28, as the code has it: while run() is in its loop the socket of every
\* Source and Sink is in exactly one of the map and pending_close, and
\* pending_close names no socket twice; when run() has returned, the listener
\* and every Source and Sink socket have been closed exactly once.  (Teardown
\* appends the sockets of the map to pending_close and leaves them in the map.)
EverySocketClosedOnce ==
    /\ pc # "done"
         => /\ \A fd \in DOMAIN outcome :
                  (fd \in DOMAIN peers) # (fd \in PendingFds)
            /\ closed = <<>>
    /\ NoDuplicate(pending_close)
    /\ pc = "done" => /\ NoDuplicate(closed)
                      /\ ClosedFds = {ListenerFd} \cup DOMAIN outcome

\* run() has returned after one role had left the map during the loop and
\* another was still in it: both sockets and the listener are closed.
ClosedBothWays ==
    /\ pc = "done"
    /\ DOMAIN peers # {}
    /\ DOMAIN outcome \ DOMAIN peers # {}
    /\ Len(closed) = Cardinality(DOMAIN outcome) + 1

\* The number of tests the tally knows of.
Registered(t) == t.not_done + t.successes + t.failures

\* C29: every accept by the listener adds one Sink to the map and adds one to
\* the number of registered tests and to the pending count.
AcceptRegistersTest ==
    [][(pc = "read" /\ rq # <<>> /\ Head(rq) = ListenerFd)
         => /\ Cardinality(DOMAIN peers') = Cardinality(DOMAIN peers) + 1
            /\ \E fd \in DOMAIN peers' \ DOMAIN peers : peers'[fd].type = SINK
            /\ Registered(tests') = Registered(tests) + 1
            /\ tests'.not_done = tests.not_done + 1]_vars

\* C30: after the listener's step of a pass no connection that was pending
\* when the step began is left unaccepted.
AcceptTakesAllPending ==
    [][(pc = "read" /\ rq # <<>> /\ Head(rq) = ListenerFd)
         => /\ backlog' = <<>>
            /\ Cardinality(DOMAIN peers') = Cardinality(DOMAIN peers) + Len(backlog)]_vars

\* C31: a Source whose connection was refused, at whatever stage the refusal
\* shows, ends as failed: no exception leaves the tester because of it, and
\* once its step has reported the failure it is out of the map with a failure
\* counted.
RefusedSourceFails ==
    \A fd \in Sources :
        socks[fd].status = "refused"
        => /\ outcome[fd] \in {"none", "failed"}
           /\ outcome[fd] = "failed"
                => fd \notin DOMAIN peers /\ tests.failures >= 1

\* The part of C31 that the code has: a refusal that shows after connect() has
\* returned is reported by the Source's next write step, in the pass in which
\* select() first reports the socket; the Source leaves the map and a failure
\* is counted.
RefusedAfterConnectFails ==
    [][\A fd \in Sources \cap DOMAIN peers :
         (socks[fd].status = "refused" /\ pc = "write" /\ wq # <<>> /\ Head(wq) = fd)
         => /\ outcome'[fd] = "failed"
            /\ fd \notin DOMAIN peers'
            /\ tests'.failures = tests.failures + 1
            /\ sent'[fd] = sent[fd]]_vars

\* The bytes a Sink has received differ from the expected stream at some place.
Diverged(fd) ==
    \E i \in DOMAIN rcvd[fd] : i <= Len(Expected) /\ rcvd[fd][i] # Expected[i]

\* C32: a Sink that has received a byte differing from the expected stream has
\* reported failure, from the end of the read step that received it.
MismatchAtFirstDivergence ==
    \A fd \in Sinks : Diverged(fd) => outcome[fd] = "failed"

\* The role that the step run() is about to take belongs to.
Stepped == IF pc = "read" /\ rq # <<>> THEN Head(rq)
           ELSE IF pc = "write" /\ wq # <<>> THEN Head(wq)
           ELSE ListenerFd

\* C33: a read step, a write step or an accept leaves every role other than
\* the one it is for in the map with its counter and buffers as they were, and
\* leaves the tester's payload and repetition count as they were.
IndependentCursors ==
    [][(pc = "read" \/ pc = "write")
         => /\ data' = data
            /\ repetitions' = repetitions
            /\ \A fd \in DOMAIN peers \ {Stepped} :
                  (fd \in DOMAIN peers' /\ peers[fd] = peers'[fd])]_vars

\* Two Sinks are in the map with different remaining-repetitions counters,
\* each having read a part of its stream.
TwoCursorsApart ==
    \E f, g \in Sinks \cap DOMAIN peers :
        /\ peers[f].repetitions < peers[g].repetitions
        /\ rcvd[f] # <<>>
        /\ rcvd[g] # <<>>

\* The payload bytes the socket of a Source has accepted: what it has sent,
\* less the request to the proxy.
PayloadAccepted(fd) ==
    IF socks[fd].proxy
    THEN Len(sent[fd]) - Min(Len(sent[fd]), Len(Request(socks[fd].dest)))
    ELSE Len(sent[fd])

\* C34: what on_writable last returned is, for a Source that was CONNECTED and
\* when it is not negative, the length of the payload times R less the payload
\* bytes accepted; and it is not 0 for a Source in the proxy handshake.
ReturnIsRemainingWork ==
    \A fd \in DOMAIN wret :
        /\ (wret[fd].state = CONNECTED /\ wret[fd].n >= 0)
             => wret[fd].n = Len(Expected) - PayloadAccepted(fd)
        /\ (wret[fd].state = CONNECTING_THROUGH_PROXY /\ wret[fd].n >= 0)
             => wret[fd].n > 0

\* The part of C34 that the code has: for a Source that connects directly the
\* return is the remaining work, it never goes up from one call to the next,
\* and it is 0 exactly when the whole stream has been accepted.
ReturnIsRemainingWorkDirect ==
    [][\A fd \in DOMAIN wret' \ ProxySources :
         wret'[fd].n >= 0
         => /\ wret'[fd].state = CONNECTED
            /\ wret'[fd].n = Len(Expected) - Len(sent'[fd])
            /\ (wret'[fd].n = 0) <=> (sent'[fd] = Expected)
            /\ (fd \in DOMAIN wret /\ wret[fd].n >= 0) => wret'[fd].n <= wret[fd].n]_vars

\* C36: a Source that goes through a proxy has read a reply byte, or is
\* CONNECTED, only when its whole request has been accepted by the socket.
HandshakeOrdering ==
    \A fd \in ProxySources :
        (rcvd[fd] # <<>> \/ srcstate[fd] = CONNECTED)
        => IsPrefix(Request(socks[fd].dest), sent[fd])

\* What on_readable does with a reply that one recv() delivers whole to a
\* Source in the handshake.
WholeReply(fd, reply) ==
    SourceOnReadable([SourceNew(data, TRUE, repetitions, socks[fd].dest)
                         EXCEPT !.state = CONNECTING_THROUGH_PROXY],
                     reply, python3)

\* C35: a Source never reads more than eight bytes from its proxy; the read
\* step that takes the eighth byte decides as the reply read whole is decided
\* (CONNECTED, failed, or the same exception); and a read step that leaves
\* fewer than eight bytes read keeps the Source in the handshake and in the map.
ReplyReadInEight ==
    [][\A fd \in ProxySources :
         /\ Len(rcvd'[fd]) <= ReplyLen
         /\ (rcvd'[fd] # rcvd[fd] /\ Len(rcvd'[fd]) = ReplyLen)
              => LET w == WholeReply(fd, rcvd'[fd])
                 IN /\ srcstate'[fd] = w.p.state
                    /\ w.raised <=> outcome'[fd] = "raised"
                    /\ (~w.raised /\ w.n < 0) <=> outcome'[fd] = "failed"
         /\ (rcvd'[fd] # rcvd[fd] /\ Len(rcvd'[fd]) < ReplyLen)
              => /\ srcstate'[fd] = CONNECTING_THROUGH_PROXY
                 /\ outcome'[fd] = "none"
                 /\ fd \in DOMAIN peers']_vars

\* A Source has read a part of its proxy's reply, the rest is still in the
\* socket, and the Source is in the handshake and in the map.
ReplyReadInPieces ==
    \E fd \in ProxySources \cap DOMAIN peers :
        /\ Len(rcvd[fd]) \in 1..(ReplyLen - 1)
        /\ socks[fd].rx # <<>>
        /\ srcstate[fd] = CONNECTING_THROUGH_PROXY

\* The roles that have reported success or failure.
TerminalRoles == {fd \in DOMAIN outcome : outcome[fd] \in {"succeeded", "failed"}}

\* C37: the write events of a pass are serviced when no read event of it is
\* left; a role that has reported success or failure is not stepped again, in
\* the write phase of the same pass or later: nothing more is sent or received
\* for it, its outcome stays, and the step that finds it gone from the map
\* leaves the tally alone; and the tally holds no more credits than there are
\* roles that have reported.
ReadsBeforeWritesOnce ==
    [][/\ pc' = "write" => rq' = <<>>
       /\ \A fd \in TerminalRoles :
             /\ outcome'[fd] = outcome[fd]
             /\ sent'[fd] = sent[fd]
             /\ rcvd'[fd] = rcvd[fd]
             /\ (pc = "write" /\ wq # <<>> /\ Head(wq) = fd) => tests' = tests
       /\ tests'.successes + tests'.failures <= Cardinality(TerminalRoles')]_vars

\* A Source that reported failure in the read phase of a pass is next in the
\* write phase of that pass.
RemovedBeforeItsWrite ==
    /\ pc = "write"
    /\ wq # <<>>
    /\ Head(wq) \in TerminalRoles
    /\ tests.failures = 1

\* C38: the assertion of Sink.verify never fails, and the buffer of a Sink is
\* never longer than one payload and its counter never below zero.
SinkAssertionHolds ==
    /\ \A fd \in Sinks : outcome[fd] # "raised"
    /\ \A fd \in Sinks \cap DOMAIN peers :
          /\ Len(peers[fd].inbuf) <= Len(data)
          /\ peers[fd].repetitions >= 0

\* A Sink has compared and dropped one payload, has part of the next in its
\* buffer and more than none to go.
SinkBetweenPayloads ==
    \E fd \in Sinks \cap DOMAIN peers :
        /\ peers[fd].repetitions < repetitions
        /\ peers[fd].repetitions > 0
        /\ peers[fd].inbuf # <<>>

\* C39: the descriptor that the next new socket gets has never been the key
\* of a role, so that adding a role never replaces an entry of the map; the
\* socket of every role in the map is open; and every descriptor still to be
\* serviced in the read phase is the listener's or a key of the map.
RoleMapKeysUnique ==
    /\ nextfd \notin {ListenerFd} \cup DOMAIN outcome
    /\ pc # "done" => DOMAIN peers \subseteq OpenFds
    /\ pc = "read"
         => \A i \in DOMAIN rq : rq[i] = ListenerFd \/ rq[i] \in DOMAIN peers

\* A Sink is accepted after another role has left the map, while a third is
\* still in it: three descriptors besides the listener's have been handed out.
AcceptedAfterRemoval ==
    /\ pc # "done"
    /\ PendingFds # {}
    /\ DOMAIN peers # {}
    /\ \E fd \in Sinks \cap DOMAIN peers : \A g \in PendingFds : g < fd
    /\ Cardinality(DOMAIN outcome) = 3
====
